---- MODULE Spec2Model ----
(***************************************************************************)
(* nl_opt: the netlist optimization debugging tool (src/src/bin/nl_opt.rs). *)
(* The tool compiles a netlist f, then runs the requested passes in order   *)
(* on the one shared netlist, verifying after the last pass (and after      *)
(* every pass with --verify).                                               *)
(*                                                                         *)
(* The netlist store and the graph analyses (Netlist, MultiDiGraph,         *)
(* SimpleCombDepth) are library code that the binary only calls; they are   *)
(* modelled from the design document.  The passes and main are modelled     *)
(* from the source.                                                         *)
(***************************************************************************)
EXTENDS Integers, Sequences, FiniteSets, TLC

VARIABLES
    f,          \* the compiled netlist shared by all passes (main, line 211)
    n,          \* args.passes.len() (main, line 217)
    verify,     \* args.verify (line 165)
    i,          \* loop index of enumerate() (line 219)
    pc,         \* position of main: "Loop", "Ok", "Done", "Failed"
    pass,       \* the pass of the current iteration, "" outside an iteration
    output,     \* the report of the current pass (line 223)
    stdout,     \* what println! has written (line 226)
    runs,       \* history: number of pass invocations so far
    verified,   \* history: the Verifier succeeded after the most recent pass
    err,        \* history: "" | "pass" | "verify", the first error
    stale,      \* history: the current pass used a value of an analysis
                \* after that analysis was invalidated
    before      \* history: the netlist as the current pass received it

vars == <<f, n, verify, i, pc, pass, output, stdout, runs, verified, err, stale,
          before>>

(***************************************************************************)
(* Bounds                                                                  *)
(***************************************************************************)
MaxInst == 3        \* instances of a netlist of the pipeline specification
MaxPasses == 2      \* length of the pass list
GraphInst == 3      \* instances of a netlist of the graph specification
GraphArcs == 3      \* connections of a netlist of the graph specification
MaxCycle == 4       \* instances of the cycle of the end-to-end specification
TermInst == 2       \* instances of a netlist of the termination specification
TermPasses == 2     \* length of the pass list of the termination specification

Ports == {1, 2}     \* the input pins of a primitive cell
ArcLimit == Cardinality(Ports)  \* connections of an initial pipeline netlist

NoNet == 0          \* an input with no driver

(***************************************************************************)
(* Small helpers                                                           *)
(***************************************************************************)
Min(S) == CHOOSE x \in S : \A y \in S : x <= y

Max(S) == CHOOSE x \in S : \A y \in S : x >= y

\* The elements of a set of integers in increasing order
RECURSIVE SortedSeq(_)
SortedSeq(S) == IF S = {} THEN <<>> ELSE <<Min(S)>> \o SortedSeq(S \ {Min(S)})

InstNames == <<"a", "arc_a", "b", "arc_b", "c", "arc_c">>

NetNames == <<"w1", "w2", "w3", "w4", "w5", "w6">>

(***************************************************************************)
(* Netlist store (library, modelled from the design document)              *)
(*   insts : the live instances, in insertion order 1, 2, ...              *)
(*   seq   : the sequential instances (is_seq)                             *)
(*   conn  : conn[v][p] is the instance driving input p of v, or NoNet     *)
(*   name  : instance names;  net : the name of the net each one drives    *)
(*   outs  : the instances whose output is a primary output                *)
(*   cache : per analysis kind, <<>> or <<the cached analysis>>            *)
(***************************************************************************)
EmptyCache == [MultiDiGraph |-> <<>>, SimpleCombDepth |-> <<>>]

\* One arc per output-to-input connection
Arcs(nl) ==
    {[src |-> nl.conn[v][p], tgt |-> v, port |-> p] :
        <<v, p>> \in {vp \in nl.insts \X Ports : nl.conn[vp[1]][vp[2]] # NoNet}}

BuildMultiDiGraph(nl) == [nodes |-> nl.insts, arcs |-> Arcs(nl)]

\* Nodes reachable from the set S along arcs of A (S included)
RECURSIVE ReachFrom(_, _)
ReachFrom(A, S) ==
    LET T == S \cup {a.tgt : a \in {x \in A : x.src \in S}}
    IN  IF T = S THEN S ELSE ReachFrom(A, T)

\* Nodes that reach the set S along arcs of A (S included)
RECURSIVE ReachTo(_, _)
ReachTo(A, S) ==
    LET T == S \cup {a.src : a \in {x \in A : x.tgt \in S}}
    IN  IF T = S THEN S ELSE ReachTo(A, T)

\* sccs(): the components, each found from its least node not yet placed
RECURSIVE SccsOf(_, _)
SccsOf(V, A) ==
    IF V = {} THEN <<>>
    ELSE LET u == Min(V)
             AV == {a \in A : a.src \in V /\ a.tgt \in V}
             c == ReachFrom(AV, {u}) \cap ReachTo(AV, {u})
         IN  <<c>> \o SccsOf(V \ c, A)

sccs(g) == SccsOf(g.nodes, g.arcs)

\* Greedy feedback arc set: peel sinks to the back and sources to the front;
\* otherwise move the node of greatest (out-degree - in-degree) to the front.
\* Ties go to the least instance.  Self-loops do not count in the degrees.
RECURSIVE GreedyOrder(_, _, _, _)
GreedyOrder(R, A, s1, s2) ==
    IF R = {} THEN s1 \o s2
    ELSE LET AR == {a \in A : a.src \in R /\ a.tgt \in R /\ a.src # a.tgt}
             outd(u) == Cardinality({a \in AR : a.src = u})
             ind(u) == Cardinality({a \in AR : a.tgt = u})
             sinks == {u \in R : outd(u) = 0}
             sources == {u \in R : ind(u) = 0}
             best == {u \in R : \A w \in R : outd(u) - ind(u) >= outd(w) - ind(w)}
         IN  IF sinks # {}
             THEN GreedyOrder(R \ {Min(sinks)}, A, s1, <<Min(sinks)>> \o s2)
             ELSE IF sources # {}
             THEN GreedyOrder(R \ {Min(sources)}, A, Append(s1, Min(sources)), s2)
             ELSE GreedyOrder(R \ {Min(best)}, A, Append(s1, Min(best)), s2)

\* Position of node u in the sequence s
PosIn(s, u) == CHOOSE k \in 1..Len(s) : s[k] = u

\* The arcs in a fixed order: by target instance, then by input pin
RECURSIVE ArcSeq(_)
ArcSeq(A) ==
    IF A = {} THEN <<>>
    ELSE LET a == CHOOSE x \in A : \A y \in A :
                      x.tgt < y.tgt \/ (x.tgt = y.tgt /\ x.port <= y.port)
         IN  <<a>> \o ArcSeq(A \ {a})

\* greedy_feedback_arcs(): the arcs that point backward in the greedy order
greedy_feedback_arcs(g) ==
    LET ord == GreedyOrder(g.nodes, g.arcs, <<>>, <<>>)
    IN  ArcSeq({a \in g.arcs : PosIn(ord, a.src) >= PosIn(ord, a.tgt)})

\* Longest chain of combinational nodes ending in v, on an acyclic graph
RECURSIVE ChainTo(_, _)
ChainTo(A, v) ==
    LET preds == {a.src : a \in {x \in A : x.tgt = v}}
    IN  1 + (IF preds = {} THEN 0 ELSE Max({ChainTo(A, u) : u \in preds}))

\* SimpleCombDepth: the combinational subgraph; a component of two or more
\* nodes or a self-loop makes the depth undefined
BuildSimpleCombDepth(nl) ==
    LET comb == nl.insts \ nl.seq
        A == {a \in Arcs(nl) : a.src \in comb /\ a.tgt \in comb}
        cs == SccsOf(comb, A)
        cyclic == (\E k \in 1..Len(cs) : Cardinality(cs[k]) > 1)
                  \/ (\E a \in A : a.src = a.tgt)
    IN  [max_depth |->
            IF cyclic THEN <<>>
            ELSE IF comb = {} THEN <<0>>
            ELSE <<Max({ChainTo(A, v) : v \in comb})>>]

get_max_depth(a) == a.max_depth

Build(kind, nl) ==
    IF kind = "MultiDiGraph" THEN BuildMultiDiGraph(nl) ELSE BuildSimpleCombDepth(nl)

\* get_analysis: the cached analysis if there is one, else build and cache it
get_analysis(nl, kind) ==
    IF nl.cache[kind] # <<>>
    THEN [nl |-> nl, analysis |-> nl.cache[kind][1]]
    ELSE [nl |-> [nl EXCEPT !.cache[kind] = <<Build(kind, nl)>>],
          analysis |-> Build(kind, nl)]

\* disconnect that leaves the cached analyses in place
disconnect_KeepsCache(nl, v, p) ==
    IF nl.conn[v][p] = NoNet
    THEN [nl |-> nl, removed |-> <<>>]
    ELSE [nl |-> [nl EXCEPT !.conn[v][p] = NoNet], removed |-> <<nl.conn[v][p]>>]

\* disconnect: clear the input's driver and drop every cached analysis;
\* an input that is already disconnected is left alone
disconnect(nl, v, p) ==
    IF nl.conn[v][p] = NoNet
    THEN [nl |-> nl, removed |-> <<>>]
    ELSE [nl |-> [nl EXCEPT !.conn[v][p] = NoNet, !.cache = EmptyCache],
          removed |-> <<nl.conn[v][p]>>]

\* clean: remove the instances from which no primary output is reachable
clean(nl) ==
    LET live == ReachTo(Arcs(nl), nl.outs)
        dead == nl.insts \ live
    IN  IF dead = {} THEN [nl |-> nl, removed |-> {}]
        ELSE [nl |-> [insts |-> live,
                      seq |-> nl.seq \cap live,
                      conn |-> [v \in live |-> nl.conn[v]],
                      name |-> [v \in live |-> nl.name[v]],
                      net |-> [v \in live |-> nl.net[v]],
                      outs |-> nl.outs,
                      cache |-> EmptyCache],
              removed |-> dead]

len(nl) == Cardinality(nl.insts)

get_instance_name(nl, v) == nl.name[v]

set_instance_name(nl, v, id) == [nl EXCEPT !.name[v] = id]

\* A namer that gives every index the same name
Namer_IgnoresIndex(k) == "__0__"

\* The namer of RenameNets: format_id!("__{i}__")
Namer(k) == "__" \o ToString(k) \o "__"

\* rename_nets with the namer of RenameNets: every net, then every instance,
\* is given the name of the next index, counting from 0
rename_nets(nl) ==
    LET order == SortedSeq(nl.insts)
    IN  [nl EXCEPT !.net = [v \in nl.insts |-> Namer(PosIn(order, v) - 1)],
                   !.name = [v \in nl.insts |->
                                Namer(len(nl) + PosIn(order, v) - 1)]]

\* matches(|i| i.is_seq()): the sequential instances in insertion order
matches_is_seq(nl) == SortedSeq(nl.insts \cap nl.seq)

\* verify: every recorded driver exists, and no two objects share a name
verify_ok(nl) ==
    /\ \A v \in nl.insts : \A p \in Ports : nl.conn[v][p] \in nl.insts \cup {NoNet}
    /\ \A u, v \in nl.insts :
          u # v => nl.name[u] # nl.name[v] /\ nl.net[u] # nl.net[v]
    /\ \A u, v \in nl.insts : nl.name[u] # nl.net[v]

(***************************************************************************)
(* The passes (nl_opt.rs, lines 12-146).  run returns the netlist after    *)
(* the pass, the report, and whether a value of an analysis was used after *)
(* that analysis had been invalidated.  A report is a record of the pass   *)
(* kind and the numbers the report text holds.                             *)
(***************************************************************************)
Report(kind, x, y) == [kind |-> kind, x |-> x, y |-> y]

NoReport == Report("", 0, 0)

Ran(nl, rep, st) == [nl |-> nl, output |-> rep, stale |-> st]

\* print: the netlist rendered as Verilog (cells and connections written)
PrintVerilog_run(nl) ==
    Ran(nl, Report("print", len(nl), Cardinality(Arcs(nl))), FALSE)

\* dot-graph: netlist.dot_string()
DotGraph_run(nl) ==
    Ran(nl, Report("dot-graph", len(nl), Cardinality(Arcs(nl))), FALSE)

\* clean that reports the number of objects before the removal as remaining
Clean_run_CountsBefore(nl) ==
    LET c == clean(nl)
    IN  Ran(c.nl, Report("clean", Cardinality(c.removed), len(nl)), FALSE)

\* clean: "Cleaned {cleaned.len()} objects. {netlist.len()} remain."
Clean_run(nl) ==
    LET c == clean(nl)
    IN  Ran(c.nl, Report("clean", Cardinality(c.removed), len(c.nl)), FALSE)

\* The loop over the inputs that stops at the first input it disconnected
RECURSIVE DisconnectInputs_StopsAtFirst(_, _, _, _)
DisconnectInputs_StopsAtFirst(nl, reg, ports, disc) ==
    IF ports = <<>> \/ disc THEN [nl |-> nl, disc |-> disc]
    ELSE LET d == disconnect(nl, reg, Head(ports))
         IN  DisconnectInputs_StopsAtFirst(d.nl, reg, Tail(ports), d.removed # <<>>)

\* for input in reg.inputs() { disc |= input.disconnect().is_some(); }
RECURSIVE DisconnectInputs(_, _, _, _)
DisconnectInputs(nl, reg, ports, disc) ==
    IF ports = <<>> THEN [nl |-> nl, disc |-> disc]
    ELSE LET d == disconnect(nl, reg, Head(ports))
         IN  DisconnectInputs(d.nl, reg, Tail(ports), disc \/ d.removed # <<>>)

\* The loop over the registers counting every register, disconnected or not
RECURSIVE DisconnectRegs_CountsEvery(_, _, _)
DisconnectRegs_CountsEvery(nl, regs, cnt) ==
    IF regs = <<>> THEN [nl |-> nl, i |-> cnt]
    ELSE LET r == DisconnectInputs(nl, Head(regs), SortedSeq(Ports), FALSE)
         IN  DisconnectRegs_CountsEvery(r.nl, Tail(regs), cnt + 1)

\* for reg in netlist.matches(|i| i.is_seq()) { ...; if disc { i += 1; } }
RECURSIVE DisconnectRegs(_, _, _)
DisconnectRegs(nl, regs, cnt) ==
    IF regs = <<>> THEN [nl |-> nl, i |-> cnt]
    ELSE LET r == DisconnectInputs(nl, Head(regs), SortedSeq(Ports), FALSE)
         IN  DisconnectRegs(r.nl, Tail(regs), IF r.disc THEN cnt + 1 ELSE cnt)

\* disconnect-registers: "Disconnected {i} registers"
DisconnectRegisters_run(nl) ==
    LET r == DisconnectRegs(nl, matches_is_seq(nl), 0)
    IN  Ran(r.nl, Report("disconnect-registers", r.i, 0), FALSE)

\* An arc of the analysis a is used while a is no longer the cached analysis
StaleUse(nl, kind, a) == nl.cache[kind] # <<a>>

\* The loop of disconnect-arc-set with the input taken on the arc's source
RECURSIVE DisconnectArcs_AtSource(_, _, _, _, _)
DisconnectArcs_AtSource(nl, a, arcs, cnt, st) ==
    IF arcs = <<>> THEN [nl |-> nl, i |-> cnt, stale |-> st]
    ELSE LET arc == Head(arcs)
             d == disconnect(nl, arc.src, arc.port)
         IN  DisconnectArcs_AtSource(d.nl, a, Tail(arcs), cnt + 1,
                                     st \/ StaleUse(nl, "MultiDiGraph", a))

\* The loop of disconnect-arc-set that disconnects the first arc only and
\* counts every arc
RECURSIVE DisconnectArcs_FirstOnly(_, _, _, _, _)
DisconnectArcs_FirstOnly(nl, a, arcs, cnt, st) ==
    IF arcs = <<>> THEN [nl |-> nl, i |-> cnt, stale |-> st]
    ELSE LET arc == Head(arcs)
             d == IF cnt = 0 THEN disconnect(nl, arc.tgt, arc.port).nl ELSE nl
         IN  DisconnectArcs_FirstOnly(d, a, Tail(arcs), cnt + 1,
                                      st \/ StaleUse(nl, "MultiDiGraph", a))

\* for arc in analysis.greedy_feedback_arcs() { arc.target().disconnect(); i += 1; }
RECURSIVE DisconnectArcs(_, _, _, _, _)
DisconnectArcs(nl, a, arcs, cnt, st) ==
    IF arcs = <<>> THEN [nl |-> nl, i |-> cnt, stale |-> st]
    ELSE LET arc == Head(arcs)
             d == disconnect(nl, arc.tgt, arc.port)
         IN  DisconnectArcs(d.nl, a, Tail(arcs), cnt + 1,
                            st \/ StaleUse(nl, "MultiDiGraph", a))

\* disconnect-arc-set run over every arc of the graph
DisconnectArcSet_run_EveryArc(nl) ==
    LET ga == get_analysis(nl, "MultiDiGraph")
        r == DisconnectArcs(ga.nl, ga.analysis, ArcSeq(ga.analysis.arcs), 0, FALSE)
    IN  Ran(r.nl, Report("disconnect-arc-set", r.i, 0), r.stale)

\* disconnect-arc-set: "Disconnected {i} arcs"
DisconnectArcSet_run(nl) ==
    LET ga == get_analysis(nl, "MultiDiGraph")
        r == DisconnectArcs(ga.nl, ga.analysis,
                            greedy_feedback_arcs(ga.analysis), 0, FALSE)
    IN  Ran(r.nl, Report("disconnect-arc-set", r.i, 0), r.stale)

\* for arc in ... { src.set_instance_name("arc_" + src.get_instance_name()); i += 1; }
RECURSIVE MarkArcs(_, _, _, _, _)
MarkArcs(nl, a, arcs, cnt, st) ==
    IF arcs = <<>> THEN [nl |-> nl, i |-> cnt, stale |-> st]
    ELSE LET src == Head(arcs).src
             suffix == get_instance_name(nl, src)
         IN  MarkArcs(set_instance_name(nl, src, "arc_" \o suffix), a, Tail(arcs),
                      cnt + 1, st \/ StaleUse(nl, "MultiDiGraph", a))

\* mark-arc-set: "Marked {i} arcs"
MarkArcSet_run(nl) ==
    LET ga == get_analysis(nl, "MultiDiGraph")
        r == MarkArcs(ga.nl, ga.analysis,
                      greedy_feedback_arcs(ga.analysis), 0, FALSE)
    IN  Ran(r.nl, Report("mark-arc-set", r.i, 0), r.stale)

\* rename-nets: "Renamed {netlist.len()} cells"
RenameNets_run(nl) ==
    LET r == rename_nets(nl)
    IN  Ran(r, Report("rename-nets", len(r), 0), FALSE)

\* The filter with scc.len() >= 1
NonTrivial_AtLeastOne(cs) == Cardinality({k \in 1..Len(cs) : Cardinality(cs[k]) >= 1})

\* sccs.iter().filter(|scc| scc.len() > 1).count()
NonTrivial(cs) == Cardinality({k \in 1..Len(cs) : Cardinality(cs[k]) > 1})

\* report-sccs that drops the cached analyses when it is done
ReportSccs_run_DropsCache(nl) ==
    LET ga == get_analysis(nl, "MultiDiGraph")
        cs == sccs(ga.analysis)
    IN  Ran([nl EXCEPT !.cache = EmptyCache],
            Report("report-sccs", NonTrivial(cs), Len(cs)), FALSE)

\* report-sccs: "Netlist contains {nt} non-trivial ... ({sccs.len()} total)"
ReportSccs_run(nl) ==
    LET ga == get_analysis(nl, "MultiDiGraph")
        cs == sccs(ga.analysis)
    IN  Ran(ga.nl, Report("report-sccs", NonTrivial(cs), Len(cs)), FALSE)

\* report-depth that reports a missing depth as depth 0
ReportDepth_run_NoneAsZero(nl) ==
    LET ga == get_analysis(nl, "SimpleCombDepth")
        d == get_max_depth(ga.analysis)
    IN  IF d # <<>>
        THEN Ran(ga.nl, Report("report-depth", d[1], 0), FALSE)
        ELSE Ran(ga.nl, Report("report-depth", 0, 0), FALSE)

\* report-depth: "Maximum combinational depth: {depth}" or "... undefined"
ReportDepth_run(nl) ==
    LET ga == get_analysis(nl, "SimpleCombDepth")
        d == get_max_depth(ga.analysis)
    IN  IF d # <<>>
        THEN Ran(ga.nl, Report("report-depth", d[1], 0), FALSE)
        ELSE Ran(ga.nl, Report("report-depth-undefined", 0, 0), FALSE)

\* register_passes!: the passes by name
Passes ==
    {"print", "dot-graph", "clean", "disconnect-registers", "disconnect-arc-set",
     "mark-arc-set", "rename-nets", "report-sccs", "report-depth"}

\* The passes whose run holds a fallible library call (a `?`)
Fallible == Passes \ {"disconnect-registers"}

\* pass.get_pass().run(&f)
PassRun(p, nl) ==
    CASE p = "print" -> PrintVerilog_run(nl)
      [] p = "dot-graph" -> DotGraph_run(nl)
      [] p = "clean" -> Clean_run(nl)
      [] p = "disconnect-registers" -> DisconnectRegisters_run(nl)
      [] p = "disconnect-arc-set" -> DisconnectArcSet_run(nl)
      [] p = "mark-arc-set" -> MarkArcSet_run(nl)
      [] p = "rename-nets" -> RenameNets_run(nl)
      [] p = "report-sccs" -> ReportSccs_run(nl)
      [] p = "report-depth" -> ReportDepth_run(nl)

(***************************************************************************)
(* main (lines 184-240): the pass loop                                     *)
(***************************************************************************)
\* i == n - 1
LastPass == i = n - 1

\* The Verifier runs only with --verify
MustVerify_FlagOnly == verify

\* The Verifier runs after the last pass, and after every pass with --verify
MustVerify == LastPass \/ verify

\* Ok(output) of pass_instance.run(&f) for the pass p of this iteration
RunPass(p) ==
    /\ pc = "Loop"
    /\ i < n
    /\ pass' = p
    /\ pc' = "Ok"
    /\ LET r == PassRun(p, f)
       IN  /\ f' = r.nl
           /\ output' = r.output
           /\ stale' = r.stale
    /\ before' = f
    /\ runs' = runs + 1
    /\ verified' = FALSE
    /\ UNCHANGED <<n, verify, i, stdout, err>>

\* Err(e) of pass_instance.run(&f): main returns the error
PassError(p) ==
    /\ pc = "Loop"
    /\ i < n
    /\ p \in Fallible
    /\ pass' = p
    /\ pc' = "Failed"
    /\ err' = "pass"
    /\ runs' = runs + 1
    /\ verified' = FALSE
    /\ UNCHANGED <<f, n, verify, i, output, stdout, stale, before>>

\* A failed verification that is reported but does not stop the loop
VerifyFails_Continues ==
    /\ pc = "Ok"
    /\ MustVerify
    /\ ~verify_ok(f)
    /\ err' = "verify"
    /\ i' = i + 1
    /\ pc' = "Loop"
    /\ UNCHANGED <<f, n, verify, pass, output, stdout, runs, verified, stale, before>>

\* f.verify().map_err(..)? fails: main returns the error
VerifyFails ==
    /\ pc = "Ok"
    /\ MustVerify
    /\ ~verify_ok(f)
    /\ pc' = "Failed"
    /\ err' = "verify"
    /\ UNCHANGED <<f, n, verify, i, pass, output, stdout, runs, verified, stale, before>>

\* The last pass: verify, then println!("{}", output)
EmitFinal ==
    /\ pc = "Ok"
    /\ LastPass
    /\ MustVerify => verify_ok(f)
    /\ verified' = MustVerify
    /\ stdout' = Append(stdout, output)
    /\ i' = i + 1
    /\ pc' = "Loop"
    /\ pass' = ""
    /\ output' = NoReport
    /\ stale' = FALSE
    /\ before' = f
    /\ UNCHANGED <<f, n, verify, runs, err>>

\* The loop index advanced by two: the next pass is skipped
EmitInfo_SkipsNext ==
    /\ pc = "Ok"
    /\ ~LastPass
    /\ MustVerify => verify_ok(f)
    /\ verified' = MustVerify
    /\ i' = i + 2
    /\ pc' = "Loop"
    /\ pass' = ""
    /\ output' = NoReport
    /\ stale' = FALSE
    /\ before' = f
    /\ UNCHANGED <<f, n, verify, stdout, runs, err>>

\* A verification under --verify that renames the nets it has checked
EmitInfo_VerifyRenames ==
    /\ pc = "Ok"
    /\ ~LastPass
    /\ MustVerify => verify_ok(f)
    /\ verified' = MustVerify
    /\ i' = i + 1
    /\ pc' = "Loop"
    /\ pass' = ""
    /\ output' = NoReport
    /\ stale' = FALSE
    /\ f' = IF verify THEN rename_nets(f) ELSE f
    /\ before' = f'
    /\ UNCHANGED <<n, verify, stdout, runs, err>>

\* Not the last pass: verify if --verify, then eprintln!("INFO: {pass}: {}", output)
EmitInfo ==
    /\ pc = "Ok"
    /\ ~LastPass
    /\ MustVerify => verify_ok(f)
    /\ verified' = MustVerify
    /\ i' = i + 1
    /\ pc' = "Loop"
    /\ pass' = ""
    /\ output' = NoReport
    /\ stale' = FALSE
    /\ before' = f
    /\ UNCHANGED <<f, n, verify, stdout, runs, err>>

\* The loop that expects one more pass than the list holds
Finish_OnePastEnd ==
    /\ pc = "Loop"
    /\ i = n + 1
    /\ pc' = "Done"
    /\ UNCHANGED <<f, n, verify, i, pass, output, stdout, runs, verified, err, stale,
                   before>>

\* The loop is over: Ok(())
Finish ==
    /\ pc = "Loop"
    /\ i = n
    /\ pc' = "Done"
    /\ UNCHANGED <<f, n, verify, i, pass, output, stdout, runs, verified, err, stale,
                   before>>

(***************************************************************************)
(* The netlists the front end hands to the loop                            *)
(***************************************************************************)
\* k instances, the first s sequential, connected as conn; the primary
\* outputs are the instances that drive no input
MkNetlist(k, s, conn) ==
    [insts |-> 1..k,
     seq |-> 1..s,
     conn |-> conn,
     name |-> [v \in 1..k |-> InstNames[v]],
     net |-> [v \in 1..k |-> NetNames[v]],
     outs |-> {u \in 1..k : \A v \in 1..k : \A p \in Ports : conn[v][p] # u},
     cache |-> EmptyCache]

NumArcs(k, conn) ==
    Cardinality({vp \in (1..k) \X Ports : conn[vp[1]][vp[2]] # NoNet})

\* The connection maps of k instances with at most maxArcs connections
Conns(k, maxArcs) == {c \in [1..k -> [Ports -> 0..k]] : NumArcs(k, c) <= maxArcs}

\* nl is a netlist of 1 to maxInst instances and at most maxArcs connections
IsNetlist(nl, maxInst, maxArcs) ==
    \E k \in 1..maxInst : \E s \in 0..k : \E conn \in Conns(k, maxArcs) :
        nl = MkNetlist(k, s, conn)

Init ==
    /\ IsNetlist(f, MaxInst, ArcLimit)
    /\ n \in 0..MaxPasses
    /\ verify \in BOOLEAN
    /\ i = 0
    /\ pc = "Loop"
    /\ pass = ""
    /\ output = NoReport
    /\ stdout = <<>>
    /\ runs = 0
    /\ verified = FALSE
    /\ err = ""
    /\ stale = FALSE
    /\ before = f

Next ==
    \/ \E p \in Passes : PassError(p)
    \/ \E p \in Passes : RunPass(p)
    \/ VerifyFails
    \/ EmitFinal
    \/ EmitInfo
    \/ Finish

Spec == Init /\ [][Next]_vars

(***************************************************************************)
(* The termination specification: the pipeline on netlists of up to        *)
(* TermInst instances.  main is one sequential thread that runs to its     *)
(* return: a step that can be taken is taken.                              *)
(***************************************************************************)
InitTerm ==
    /\ IsNetlist(f, TermInst, ArcLimit)
    /\ n \in 0..TermPasses
    /\ verify \in BOOLEAN
    /\ i = 0
    /\ pc = "Loop"
    /\ pass = ""
    /\ output = NoReport
    /\ stdout = <<>>
    /\ runs = 0
    /\ verified = FALSE
    /\ err = ""
    /\ stale = FALSE
    /\ before = f

FairSpec == InitTerm /\ [][Next]_vars /\ WF_vars(Next)

(***************************************************************************)
(* The graph specification: one graph pass on a netlist of up to GraphInst *)
(* instances and GraphArcs connections                                     *)
(***************************************************************************)
GraphPasses == {"report-sccs", "report-depth", "disconnect-arc-set"}

InitGraph ==
    /\ IsNetlist(f, GraphInst, GraphArcs)
    /\ n = 1
    /\ verify = FALSE
    /\ i = 0
    /\ pc = "Loop"
    /\ pass = ""
    /\ output = NoReport
    /\ stdout = <<>>
    /\ runs = 0
    /\ verified = FALSE
    /\ err = ""
    /\ stale = FALSE
    /\ before = f

NextGraph ==
    \/ \E p \in GraphPasses : RunPass(p)
    \/ \E p \in GraphPasses : PassError(p)
    \/ EmitFinal
    \/ Finish

SpecGraph == InitGraph /\ [][NextGraph]_vars

(***************************************************************************)
(* The end-to-end specification: the passes report-sccs,                   *)
(* disconnect-arc-set, report-sccs, report-depth on a netlist that is one  *)
(* simple cycle of combinational instances                                 *)
(***************************************************************************)
EndToEnd == <<"report-sccs", "disconnect-arc-set", "report-sccs", "report-depth">>

\* The cycle order[1] -> order[2] -> ... -> order[k] -> order[1], the
\* connection into v made on input pin[v]
CycleConn(k, order, pin) ==
    [v \in 1..k |->
        [p \in Ports |->
            IF p # pin[v] THEN NoNet
            ELSE LET j == PosIn(order, v)
                 IN  order[IF j = 1 THEN k ELSE j - 1]]]

\* nl is one simple cycle of 2 to maxK combinational instances
IsCycleNetlist(nl, maxK) ==
    \E k \in 2..maxK :
        \E order \in {s \in [1..k -> 1..k] :
                         s[1] = 1 /\ \A x, y \in 1..k : x # y => s[x] # s[y]} :
            \E pin \in [1..k -> Ports] :
                nl = MkNetlist(k, 0, CycleConn(k, order, pin))

InitCycle ==
    /\ IsCycleNetlist(f, MaxCycle)
    /\ n = Len(EndToEnd)
    /\ verify \in BOOLEAN
    /\ i = 0
    /\ pc = "Loop"
    /\ pass = ""
    /\ output = NoReport
    /\ stdout = <<>>
    /\ runs = 0
    /\ verified = FALSE
    /\ err = ""
    /\ stale = FALSE
    /\ before = f

NextCycle ==
    \/ i < n /\ RunPass(EndToEnd[i + 1])
    \/ i < n /\ PassError(EndToEnd[i + 1])
    \/ EmitFinal
    \/ EmitInfo
    \/ Finish

SpecCycle == InitCycle /\ [][NextCycle]_vars

(***************************************************************************)
(* Properties of the pass loop                                             *)
(***************************************************************************)

\* C1: once a pass has returned an error or a verification has failed, the
\* run is Failed and stays so: no further pass is invoked, the netlist is
\* not changed any more, and nothing has been or will be written to stdout.
C1_FailureAborts ==
    /\ [](err # "" => pc = "Failed" /\ stdout = <<>>)
    /\ [][err # "" => /\ pc' = "Failed"
                      /\ f' = f
                      /\ runs' = runs
                      /\ i' = i
                      /\ stdout' = stdout]_vars
    /\ [][pc' = "Failed" /\ pc # "Failed" => err' # "" /\ f' = f /\ stdout' = <<>>]_vars

\* A verification failed after a pass that is not the last one
C1_Witness == pc = "Failed" /\ err = "verify" /\ i + 1 < n /\ runs = i + 1

\* C2 (as claimed): a run that exits successfully has run every requested
\* pass and the Verifier has succeeded on the final netlist, for every pass
\* list, the empty one included.
C2_SuccessIsVerified == pc = "Done" => runs = n /\ verified /\ err = ""

\* C3: the final report is written only by the last pass and only after the
\* Verifier succeeded on the netlist; when a pass completes, the Verifier has
\* run after it exactly if it is the last pass or --verify is set.
C3_VerifyBeforeReport ==
    /\ [][stdout' # stdout =>
            /\ LastPass
            /\ verified'
            /\ verify_ok(f)
            /\ stdout' = Append(stdout, output)]_vars
    /\ [][i' # i =>
            /\ verified' <=> (LastPass \/ verify)
            /\ verified' => verify_ok(f)
            /\ LastPass => stdout' # stdout]_vars

\* Two passes without --verify: the first went unverified, the last was
\* verified and its report written
C3_Witness == pc = "Done" /\ n = 2 /\ ~verify /\ verified /\ Len(stdout) = 1

\* C4: passes are invoked one per index, in index order, each after the
\* previous one returned successfully, and each on the shared netlist as the
\* previous passes left it: only a pass changes the netlist, and the netlist
\* after a pass is that pass's result on the netlist before it.
C4_InOrderOnSharedNetlist ==
    /\ [](/\ pc = "Loop" => runs = i /\ err = ""
          /\ pc = "Ok" => runs = i + 1 /\ i < n /\ err = ""
          /\ pc = "Done" => runs = n /\ i = n)
    /\ [][i' # i => i' = i + 1 /\ pc = "Ok" /\ pc' = "Loop"]_vars
    /\ [][runs' # runs => runs' = runs + 1 /\ pc = "Loop" /\ i' = i /\ i < n]_vars
    /\ [][pc # "Loop" => f' = f]_vars
    /\ [][pc = "Loop" /\ pc' = "Ok" => f' = PassRun(pass', f).nl]_vars

\* The second pass is clean and removes what the first pass cut loose
C4_Witness == pc = "Ok" /\ i = 1 /\ runs = 2 /\ pass = "clean" /\ output.x > 0

(***************************************************************************)
(* Properties of the analysis cache                                        *)
(***************************************************************************)

\* C5: a cached analysis is the analysis of the current netlist, so that
\* report-sccs and report-depth report what a computation from scratch on
\* the current netlist gives; and a pass that changes the instances or the
\* connections leaves no analysis of any kind cached.
C5_CacheFresh ==
    /\ [](/\ \A kind \in {"MultiDiGraph", "SimpleCombDepth"} :
                f.cache[kind] # <<>> => f.cache[kind] = <<Build(kind, f)>>
          /\ pc = "Ok" /\ pass = "report-sccs" =>
                output = Report("report-sccs",
                                NonTrivial(sccs(BuildMultiDiGraph(f))),
                                Len(sccs(BuildMultiDiGraph(f))))
          /\ pc = "Ok" /\ pass = "report-depth" =>
                LET d == get_max_depth(BuildSimpleCombDepth(f))
                IN  output = IF d # <<>> THEN Report("report-depth", d[1], 0)
                             ELSE Report("report-depth-undefined", 0, 0))
    /\ [][f'.insts # f.insts \/ f'.conn # f.conn => f'.cache = EmptyCache]_vars

\* A second pass disconnected registers and left no analysis cached
C5_Witness ==
    /\ pc = "Ok" /\ i = 1 /\ pass = "disconnect-registers"
    /\ output.x > 0 /\ f.cache = EmptyCache

\* C6 (as claimed): no pass uses an analysis, or an arc obtained from it,
\* after a mutation has invalidated that analysis.
C6_NoStaleUse == ~stale

(***************************************************************************)
(* Properties of the graph analyses, stated with a reachability relation   *)
(* computed apart from the analyses                                        *)
(***************************************************************************)
\* The pairs <<u, v>> with an arc from u to v, both in V
Edges(nl, V) == {<<a.src, a.tgt>> : a \in {x \in Arcs(nl) : x.src \in V /\ x.tgt \in V}}

\* Transitive closure of the relation R
RECURSIVE Closure(_)
Closure(R) ==
    LET S == R \cup {<<x[1], y[2]>> : <<x, y>> \in {xy \in R \X R : xy[1][2] = xy[2][1]}}
    IN  IF S = R THEN R ELSE Closure(S)

\* The pairs <<u, v>> of instances that lie on a common cycle
CommonCycle(nl) ==
    LET C == Closure(Edges(nl, nl.insts))
    IN  {uv \in C : <<uv[2], uv[1]>> \in C}

\* The classes of mutual reachability
Classes(nl) ==
    LET M == CommonCycle(nl)
    IN  {{v \in nl.insts : v = u \/ <<u, v>> \in M} : u \in nl.insts}

NoNonTrivialComponent(nl) == \A uv \in CommonCycle(nl) : uv[1] = uv[2]

\* The combinational subgraph holds a cycle (a self-loop included)
HasCombCycle(nl) ==
    \E v \in nl.insts \ nl.seq : <<v, v>> \in Closure(Edges(nl, nl.insts \ nl.seq))

\* The number of instances on the longest walk through combinational
\* instances, counted level by level, up to the bound m
RECURSIVE LongestWalk(_, _, _, _)
LongestWalk(E, L, cnt, m) ==
    LET nxt == {e[2] : e \in {x \in E : x[1] \in L}}
    IN  IF nxt = {} \/ cnt = m THEN cnt ELSE LongestWalk(E, nxt, cnt + 1, m)

LongestCombChain(nl) ==
    LET comb == nl.insts \ nl.seq
    IN  IF comb = {} THEN 0
        ELSE LongestWalk(Edges(nl, comb), comb, 1, Cardinality(comb) + 1)

RECURSIVE SumSizes(_)
SumSizes(cs) == IF cs = <<>> THEN 0 ELSE Cardinality(Head(cs)) + SumSizes(Tail(cs))

\* C7: after disconnect-arc-set no two instances lie on a common cycle, a
\* computation of sccs() on the result has no component of more than one
\* instance, and report-sccs on a netlist without such a component reports
\* 0 non-trivial components.
C7_AcyclicAfterArcSet ==
    /\ pc = "Ok" /\ pass = "disconnect-arc-set" =>
          /\ NoNonTrivialComponent(f)
          /\ NonTrivial(sccs(BuildMultiDiGraph(f))) = 0
    /\ pc = "Ok" /\ pass = "report-sccs" /\ NoNonTrivialComponent(f) => output.x = 0

\* disconnect-arc-set removed two feedback arcs
C7_Witness == pc = "Ok" /\ pass = "disconnect-arc-set" /\ output.x >= 2

\* C8: on a netlist that is one simple cycle of k combinational instances
\* the four passes report 1 non-trivial component of 1; 1 disconnected arc;
\* 0 non-trivial components of k; a defined depth.
C8_EndToEndOnCycle ==
    pc = "Ok" =>
        /\ i = 0 => output = Report("report-sccs", 1, 1)
        /\ i = 1 => output = Report("disconnect-arc-set", 1, 0)
        /\ i = 2 => output = Report("report-sccs", 0, Cardinality(f.insts))
        /\ i = 3 => output.kind = "report-depth" /\ output.x \in Nat

\* The run on a cycle of three instances ended with the depth on stdout
C8_Witness ==
    /\ pc = "Done" /\ Cardinality(f.insts) = 3
    /\ Len(stdout) = 1 /\ stdout[1].kind = "report-depth"

\* C9: report-depth reports "undefined" exactly if the combinational
\* subgraph holds a cycle, and otherwise the number of instances on the
\* longest chain of combinational instances.
C9_DepthDefinedIffAcyclic ==
    pc = "Ok" /\ pass = "report-depth" =>
        /\ output.kind \in {"report-depth", "report-depth-undefined"}
        /\ output.kind = "report-depth-undefined" <=> HasCombCycle(f)
        /\ output.kind = "report-depth" =>
              output.x >= 0 /\ output.x = LongestCombChain(f)

\* The depth is undefined because of a cycle that is not a self-loop
C9_Witness ==
    /\ pc = "Ok" /\ pass = "report-depth"
    /\ output.kind = "report-depth-undefined"
    /\ \A a \in Arcs(f) : a.src # a.tgt

\* C10: sccs() is a partition of the instances into the classes of mutual
\* reachability, and report-sccs reports the number of classes and the
\* number of classes of more than one instance.
C10_SccsPartition ==
    pc = "Ok" /\ pass = "report-sccs" =>
        LET cs == sccs(BuildMultiDiGraph(f))
            classes == Classes(f)
        IN  /\ {cs[k] : k \in 1..Len(cs)} = classes
            /\ \A j, k \in 1..Len(cs) : j # k => cs[j] \cap cs[k] = {}
            /\ UNION {cs[k] : k \in 1..Len(cs)} = f.insts
            /\ SumSizes(cs) = Cardinality(f.insts)
            /\ output.kind = "report-sccs"
            /\ output.y = Cardinality(classes)
            /\ output.x = Cardinality({c \in classes : Cardinality(c) > 1})
            /\ output.x <= output.y

\* One component of two instances and one of a single instance
C10_Witness ==
    /\ pc = "Ok" /\ pass = "report-sccs"
    /\ output.x = 1 /\ output.y = 2 /\ Cardinality(f.insts) = 3

(***************************************************************************)
(* Properties of names                                                     *)
(***************************************************************************)
\* No two instances share an instance name, no two nets share a net name
NamesDistinct(nl) ==
    \A u, v \in nl.insts :
        u # v => nl.name[u] # nl.name[v] /\ nl.net[u] # nl.net[v]

\* C11 (as claimed): whenever the loop stands between two passes, all passes
\* so far having succeeded, the instance names are pairwise distinct and the
\* net names are pairwise distinct: a rename to a name in use has failed the
\* run instead of creating the duplicate.
C11_NamesStayDistinct == pc = "Loop" => NamesDistinct(f)

\* C12: after rename-nets all net names and instance names of the netlist
\* are pairwise distinct (no two nets, no two instances, and no net and
\* instance share a name), whatever the names were before the pass.
C12_RenameNetsDistinct ==
    pc = "Ok" /\ pass = "rename-nets" =>
        /\ NamesDistinct(f)
        /\ \A u, v \in f.insts : f.name[u] # f.net[v]
        /\ output = Report("rename-nets", Cardinality(f.insts), 0)

\* rename-nets ran on a netlist in which two instances had the same name
C12_Witness ==
    /\ pc = "Ok" /\ pass = "rename-nets"
    /\ \E u, v \in before.insts : u # v /\ before.name[u] = before.name[v]

(***************************************************************************)
(* Properties of single passes, stated on the netlist before the pass      *)
(* (before) and after it (f)                                               *)
(***************************************************************************)

\* C13: clean run again on the netlist that a clean pass produced removes
\* nothing: it reports "Cleaned 0 objects. M remain." with the M of the
\* first report and returns the netlist unchanged.  The first report counts
\* the objects removed and the objects left.
C13_CleanIdempotent ==
    pc = "Ok" /\ pass = "clean" =>
        /\ output = Report("clean", Cardinality(before.insts \ f.insts),
                           Cardinality(f.insts))
        /\ Clean_run(f).output = Report("clean", 0, output.y)
        /\ Clean_run(f).nl = f

\* The first clean removed objects and left others
C13_Witness ==
    /\ pc = "Ok" /\ pass = "clean"
    /\ output.x > 0 /\ output.y > 0 /\ f.insts # before.insts

\* C14: disconnect on an input that is already disconnected returns no net
\* and leaves the netlist as it is; disconnect-registers run again on the
\* netlist that a disconnect-registers pass produced reports "Disconnected 0
\* registers" and returns the netlist unchanged.
C14_DisconnectIdempotent ==
    /\ \A v \in f.insts : \A p \in Ports :
          f.conn[v][p] = NoNet => disconnect(f, v, p) = [nl |-> f, removed |-> <<>>]
    /\ pc = "Ok" /\ pass = "disconnect-registers" =>
          /\ DisconnectRegisters_run(f).output = Report("disconnect-registers", 0, 0)
          /\ DisconnectRegisters_run(f).nl = f

\* The first disconnect-registers disconnected two registers
C14_Witness ==
    /\ pc = "Ok" /\ pass = "disconnect-registers"
    /\ output.x = 2 /\ f.conn # before.conn

\* The passes that only report
ReportOnly == {"print", "dot-graph", "report-sccs", "report-depth"}

\* C15: a report-only pass (print, dot-graph, report-sccs, report-depth)
\* leaves the instances, nets, connections and names as they were, and every
\* analysis cached before the pass is still cached after it, unchanged and
\* valid for the netlist; the pass at most adds a cache entry.
C15_ReportOnlyFrame ==
    pc = "Ok" /\ pass \in ReportOnly =>
        /\ [f EXCEPT !.cache = EmptyCache] = [before EXCEPT !.cache = EmptyCache]
        /\ \A kind \in DOMAIN before.cache :
              before.cache[kind] # <<>> =>
                  /\ f.cache[kind] = before.cache[kind]
                  /\ f.cache[kind] = <<Build(kind, f)>>
        /\ \A kind \in DOMAIN f.cache :
              f.cache[kind] # before.cache[kind] =>
                  before.cache[kind] = <<>> /\ f.cache[kind] = <<Build(kind, f)>>

\* report-depth ran with the graph of an earlier report-sccs cached, kept it
\* and added the depth analysis
C15_Witness ==
    /\ pc = "Ok" /\ pass = "report-depth"
    /\ before.cache["MultiDiGraph"] # <<>>
    /\ before.cache["SimpleCombDepth"] = <<>>
    /\ f.cache["MultiDiGraph"] = before.cache["MultiDiGraph"]
    /\ f.cache["SimpleCombDepth"] # <<>>

\* The feedback arcs of the netlist nl, computed from scratch
FeedbackArcs(nl) ==
    LET arcs == greedy_feedback_arcs(BuildMultiDiGraph(nl))
    IN  {arcs[k] : k \in 1..Len(arcs)}

\* C16 (as claimed): after mark-arc-set exactly the instances that source a
\* feedback arc of the netlist before the pass are renamed, each to "arc_"
\* followed by its name before the pass, the prefix applied once however many
\* feedback arcs the instance sources; every other name and every connection
\* is unchanged, and the report is "Marked N arcs" with N the number of
\* feedback arcs.
C16_MarkedOnce ==
    pc = "Ok" /\ pass = "mark-arc-set" =>
        LET fb == FeedbackArcs(before)
        IN  /\ \A v \in f.insts :
                  f.name[v] = IF \E a \in fb : a.src = v
                              THEN "arc_" \o before.name[v]
                              ELSE before.name[v]
            /\ f.insts = before.insts
            /\ f.conn = before.conn
            /\ f.net = before.net
            /\ output = Report("mark-arc-set", Cardinality(fb), 0)

\* The inputs of the instance v that are connected in nl
Connected(nl, v) == {p \in Ports : nl.conn[v][p] # NoNet}

\* C17: after disconnect-registers every input of every sequential instance
\* is disconnected and every input of a combinational instance is as it was;
\* the reported N is the number of sequential instances that had at least
\* one connected input before the pass.
C17_RegistersDisconnected ==
    pc = "Ok" /\ pass = "disconnect-registers" =>
        /\ f.insts = before.insts /\ f.seq = before.seq
        /\ \A v \in f.seq : Connected(f, v) = {}
        /\ \A v \in f.insts \ f.seq : f.conn[v] = before.conn[v]
        /\ output = Report("disconnect-registers",
                           Cardinality({v \in before.seq : Connected(before, v) # {}}),
                           0)

\* A register with two connected inputs was counted once, and a register
\* without connected inputs was not counted
C17_Witness ==
    /\ pc = "Ok" /\ pass = "disconnect-registers" /\ output.x = 1
    /\ \E u, v \in before.seq :
          Cardinality(Connected(before, u)) = 2 /\ Connected(before, v) = {}

\* C18: in disconnect-arc-set the reported N is the number of inputs that
\* were connected before the pass and are disconnected after it, which is
\* the number of feedback arcs of the netlist before the pass; the inputs
\* disconnected are those of the feedback arcs, and every other input is as
\* it was.
C18_ArcSetCount ==
    pc = "Ok" /\ pass = "disconnect-arc-set" =>
        LET fb == FeedbackArcs(before)
            removed == {a \in Arcs(before) : f.conn[a.tgt][a.port] = NoNet}
        IN  /\ f.insts = before.insts
            /\ output = Report("disconnect-arc-set", Cardinality(removed), 0)
            /\ Cardinality(removed) = Cardinality(fb)
            /\ removed = fb
            /\ \A v \in f.insts : \A p \in Ports :
                  f.conn[v][p] # before.conn[v][p] =>
                      \E a \in fb : a.tgt = v /\ a.port = p

\* Two feedback arcs were removed and a connection outside the arc set is
\* still in place
C18_Witness ==
    /\ pc = "Ok" /\ pass = "disconnect-arc-set" /\ output.x = 2
    /\ Arcs(f) # {}
    /\ Cardinality(Arcs(before)) = 3

(***************************************************************************)
(* Termination                                                             *)
(***************************************************************************)
Terminated == pc \in {"Done", "Failed"}

\* The steps main has left at most: two per pass not yet run, one for the
\* handling of a pass that has returned, one for the return
StepsLeft ==
    IF Terminated THEN 0
    ELSE 2 * (n - i) + (IF pc = "Loop" THEN 1 ELSE 0)

\* C19: every run ends in Done or Failed, whatever the pass list and the
\* netlist, combinational cycles included: every step brings the end nearer
\* by the count of the steps left, and report-depth on a netlist with a
\* combinational cycle returns with the report "undefined".
C19_Terminates ==
    /\ <>Terminated
    /\ [](StepsLeft \in Nat)
    /\ [][StepsLeft' < StepsLeft]_vars
    /\ [](pc = "Ok" /\ pass = "report-depth" /\ HasCombCycle(before) =>
             output = Report("report-depth-undefined", 0, 0))

\* A run of two passes ended in Done after report-depth met a combinational
\* cycle and reported the depth as undefined
C19_Witness ==
    /\ pc = "Done" /\ n = 2 /\ runs = 2
    /\ Len(stdout) = 1 /\ stdout[1].kind = "report-depth-undefined"

(***************************************************************************)
(* Verification and the outcome of the run                                 *)
(***************************************************************************)

====
